---- MODULE Spec2Model ----
(***************************************************************************)
(* A model of the Dialogflow CX tool server of src/main.py: the global     *)
(* client handle, the tools that call the remote service, the parameter    *)
(* and response normalisers, and the webhook response builder and request  *)
(* parser.                                                                 *)
(*                                                                         *)
(* JSON and Python values are tagged tuples <<tag, payload>>, so values of *)
(* different Python types are comparable:                                  *)
(*   <<"null">>  <<"bool", b>>  <<"num", n>>  <<"str", s>>                 *)
(*   <<"list", sequence of values>>  <<"obj", function from keys>>         *)
(***************************************************************************)
EXTENDS Integers, Sequences, FiniteSets, Bags, TLC

VARIABLES
    DIALOGFLOW_CLIENT, \* the global handle: <<>> is None, <<c>> holds client c
    issued,            \* history: session ids supplied or generated so far
    inits,             \* history: whether an initialize call has succeeded, has failed
    waiting,           \* the bag of invocations suspended at their await
    req,               \* the call handed to a pure tool (pure specifications)
    ret                \* what the step just taken returned to its caller

vars == <<DIALOGFLOW_CLIENT, issued, inits, waiting, req, ret>>

----------------------------------------------------------------------------
(* Bounds of the model.                                                    *)

MaxMsgs == 2          \* longest message list given to a tool
MaxParams == 2        \* most keys of a typed parameter mapping
MaxUuids == 2         \* session ids generated in one behaviour
MaxWaiting == 2       \* invocations suspended at their await at one time

----------------------------------------------------------------------------
(* JSON / Python values.                                                   *)

JNull == <<"null">>
JBool(b) == <<"bool", b>>
JNum(n) == <<"num", n>>
JStr(s) == <<"str", s>>
JList(q) == <<"list", q>>
JObj(f) == <<"obj", f>>
EmptyMap == [k \in {} |-> JNull]
EmptyObj == JObj(EmptyMap)

IsStr(v) == v[1] = "str"
IsObj(v) == v[1] = "obj"
IsList(v) == v[1] = "list"

\* The outcome of evaluating a Python expression: a value or a raised exception.
Ok(v) == [ok |-> TRUE, val |-> v]
Raise(e) == [ok |-> FALSE, exc |-> e]

\* s contains w as a substring, for the strings of the model.
ProperSubstrings ==
    { <<"plain text", "text">>, <<"a payload b", "payload">>,
      <<"say end_interaction now", "end_interaction">> }
Contains(s, w) == s = w \/ <<s, w>> \in ProperSubstrings

\* The characters of a string, for iteration over it.
Chars(s) == CASE s = "" -> <<>>
              [] s = "hi" -> <<"h", "i">>
              [] OTHER -> <<s>>

RECURSIVE SetToSeq(_)
SetToSeq(S) == IF S = {} THEN <<>>
               ELSE LET x == CHOOSE y \in S : TRUE IN <<x>> \o SetToSeq(S \ {x})

Range(q) == { q[i] : i \in 1..Len(q) }

SeqsUpTo(S, n) == UNION { [1..k -> S] : k \in 0..n }

\* Python `k in x` for a string k.
PyIn(k, x) ==
    CASE x[1] = "obj" -> Ok(k \in DOMAIN x[2])
      [] x[1] = "list" -> Ok(JStr(k) \in Range(x[2]))
      [] x[1] = "str" -> Ok(Contains(x[2], k))
      [] OTHER -> Raise("TypeError")

\* Python `x.get(k, d)`.
PyGet(x, k, d) ==
    IF x[1] = "obj" THEN Ok(IF k \in DOMAIN x[2] THEN x[2][k] ELSE d)
    ELSE Raise("AttributeError")

\* Python `x[k]` for a string k.
PyIndex(x, k) ==
    IF x[1] = "obj" THEN (IF k \in DOMAIN x[2] THEN Ok(x[2][k]) ELSE Raise("KeyError"))
    ELSE Raise("TypeError")

\* Python `for m in x`: the sequence iterated, or TypeError.
PyIter(x) ==
    CASE x[1] = "list" -> Ok(x[2])
      [] x[1] = "str" -> Ok([i \in 1..Len(Chars(x[2])) |-> JStr(Chars(x[2])[i])])
      [] x[1] = "obj" -> Ok([i \in 1..Cardinality(DOMAIN x[2]) |->
                               JStr(SetToSeq(DOMAIN x[2])[i])])
      [] OTHER -> Raise("TypeError")

\* f"{prefix}: {str(e)}", kept as the pair of its two parts.
FStr(prefix, e) == <<"fstr", <<prefix, e>>>>
\* A variant that returns the message itself, as initialize_dialogflow does.
ErrorResultBare(prefix, e) == FStr(prefix, e)

\* return {"error": f"...: {str(e)}"} in an except block.
ErrorResult(prefix, e) == JObj([error |-> FStr(prefix, e)])
HasError(r) == IsObj(r) /\ "error" \in DOMAIN r[2]

----------------------------------------------------------------------------
(* JSON text: json.dumps and json.loads over token sequences.  A token is  *)
(* a scalar value or a punctuation mark <<"p", c>>.                        *)

P(c) == <<"p", c>>
IsScalar(v) == v[1] \in {"null", "bool", "num", "str"}

RECURSIVE Dumps(_), DumpsElems(_), DumpsMembers(_, _)
Dumps(v) ==
    CASE v[1] = "list" -> <<P("[")>> \o DumpsElems(v[2]) \o <<P("]")>>
      [] v[1] = "obj" -> <<P("{")>> \o DumpsMembers(v[2], SetToSeq(DOMAIN v[2])) \o <<P("}")>>
      [] OTHER -> <<v>>
DumpsElems(q) ==
    IF q = <<>> THEN <<>>
    ELSE Dumps(Head(q)) \o (IF Len(q) > 1 THEN <<P(",")>> ELSE <<>>) \o DumpsElems(Tail(q))
DumpsMembers(f, ks) ==
    IF ks = <<>> THEN <<>>
    ELSE <<JStr(Head(ks)), P(":")>> \o Dumps(f[Head(ks)])
         \o (IF Len(ks) > 1 THEN <<P(",")>> ELSE <<>>) \o DumpsMembers(f, Tail(ks))

Parsed(v, n) == [ok |-> TRUE, val |-> v, next |-> n]
NoParse == [ok |-> FALSE]
At(t, i) == IF i <= Len(t) THEN t[i] ELSE P("eof")

\* A later duplicate key replaces an earlier one, as in json.loads.
Put(f, k, v) == [x \in DOMAIN f \cup {k} |-> IF x = k THEN v ELSE f[x]]

RECURSIVE ParseValue(_, _), ParseElems(_, _, _), ParseMembers(_, _, _)
ParseValue(t, i) ==
    LET tok == At(t, i) IN
    CASE IsScalar(tok) -> Parsed(tok, i + 1)
      [] tok = P("[") -> IF At(t, i + 1) = P("]") THEN Parsed(JList(<<>>), i + 2)
                         ELSE ParseElems(t, i + 1, <<>>)
      [] tok = P("{") -> IF At(t, i + 1) = P("}") THEN Parsed(EmptyObj, i + 2)
                         ELSE ParseMembers(t, i + 1, EmptyMap)
      [] OTHER -> NoParse
ParseElems(t, i, acc) ==
    LET r == ParseValue(t, i) IN
    IF ~r.ok THEN NoParse
    ELSE CASE At(t, r.next) = P(",") -> ParseElems(t, r.next + 1, Append(acc, r.val))
           [] At(t, r.next) = P("]") -> Parsed(JList(Append(acc, r.val)), r.next + 1)
           [] OTHER -> NoParse
ParseMembers(t, i, acc) ==
    IF ~(IsStr(At(t, i)) /\ At(t, i + 1) = P(":")) THEN NoParse
    ELSE LET r == ParseValue(t, i + 2) IN
         IF ~r.ok THEN NoParse
         ELSE CASE At(t, r.next) = P(",") ->
                       ParseMembers(t, r.next + 1, Put(acc, At(t, i)[2], r.val))
                [] At(t, r.next) = P("}") ->
                       Parsed(JObj(Put(acc, At(t, i)[2], r.val)), r.next + 1)
                [] OTHER -> NoParse

Loads(t) ==
    LET r == ParseValue(t, 1) IN
    IF r.ok /\ r.next = Len(t) + 1 THEN Ok(r.val) ELSE Raise("JSONDecodeError")

----------------------------------------------------------------------------
(* create_webhook_response (the build_webhook_response tool).              *)

TextMessage(v) == JObj([text |-> JObj([text |-> JList(<<v>>)])])
PayloadMessage(v) == JObj([payload |-> v])

\* A variant that tests for a payload before it tests for a text field.
FormatMessagePayloadFirst(msg) ==
    IF IsStr(msg) THEN <<TextMessage(msg)>>
    ELSE IF IsObj(msg) /\ "payload" \in DOMAIN msg[2]
         THEN <<PayloadMessage(msg[2]["payload"])>>
    ELSE IF IsObj(msg) /\ "text" \in DOMAIN msg[2] THEN <<TextMessage(msg[2]["text"])>>
    ELSE <<>>

\* What the loop body appends for one descriptor: one message or nothing.
FormatMessage(msg) ==
    IF IsStr(msg) THEN <<TextMessage(msg)>>
    ELSE IF IsObj(msg) /\ "text" \in DOMAIN msg[2] THEN <<TextMessage(msg[2]["text"])>>
    ELSE IF IsObj(msg) /\ "payload" \in DOMAIN msg[2]
         THEN <<PayloadMessage(msg[2]["payload"])>>
    ELSE <<>>

RECURSIVE FormatMessages(_)
FormatMessages(q) ==
    IF q = <<>> THEN <<>> ELSE FormatMessage(Head(q)) \o FormatMessages(Tail(q))

\* A variant that emits the messages list whether or not messages were supplied.
FulfillmentResponseAlways(fr, iterated) ==
    [messages |-> JList(FormatMessages(iterated))]

\* response["fulfillmentResponse"] once the messages are iterated.
FulfillmentResponse(fr, iterated) ==
    IF "messages" \in DOMAIN fr THEN [messages |-> JList(FormatMessages(iterated))]
    ELSE EmptyMap

\* A variant that stores the parameter updates as sessionInfo itself.
WithOptionalFieldsFlat(fr, r0) ==
    LET r1 == IF "parameter_updates" \in DOMAIN fr
              THEN Put(r0, "sessionInfo", fr["parameter_updates"])
              ELSE r0
        r2 == IF "target_page" \in DOMAIN fr THEN Put(r1, "targetPage", fr["target_page"])
              ELSE r1
    IN IF "target_flow" \in DOMAIN fr THEN Put(r2, "targetFlow", fr["target_flow"]) ELSE r2

\* The response with the optional fields added.
WithOptionalFields(fr, r0) ==
    LET r1 == IF "parameter_updates" \in DOMAIN fr
              THEN Put(r0, "sessionInfo", JObj([parameters |-> fr["parameter_updates"]]))
              ELSE r0
        r2 == IF "target_page" \in DOMAIN fr THEN Put(r1, "targetPage", fr["target_page"])
              ELSE r1
    IN IF "target_flow" \in DOMAIN fr THEN Put(r2, "targetFlow", fr["target_flow"]) ELSE r2

\* The body of the try block; fr is the mapping of the request dict.
CreateWebhookResponseBody(fr) ==
    LET it == IF "messages" \in DOMAIN fr THEN PyIter(fr["messages"]) ELSE Ok(<<>>) IN
    IF ~it.ok THEN it
    ELSE Ok(JObj(WithOptionalFields(fr,
                 [fulfillmentResponse |-> JObj(FulfillmentResponse(fr, it.val))])))

create_webhook_response(fulfillment_response) ==
    LET r == CreateWebhookResponseBody(fulfillment_response[2]) IN
    IF r.ok THEN r.val ELSE ErrorResult("Error creating webhook response", r.exc)

----------------------------------------------------------------------------
(* parse_webhook_request.                                                  *)

TypedMessage(type, content) == JObj([type |-> JStr(type), content |-> content])

\* A variant that tests for a payload before it tests for a text field.
ExtractMessagePayloadFirst(msg) ==
    LET hasText == PyIn("text", msg)
        t1 == PyIndex(msg, "text")
        t2 == PyIndex(t1.val, "text")
        hasPayload == PyIn("payload", msg)
        p1 == PyIndex(msg, "payload")
    IN IF ~hasPayload.ok THEN hasPayload
       ELSE IF hasPayload.val
            THEN (IF ~p1.ok THEN p1 ELSE Ok(<<TypedMessage("payload", p1.val)>>))
       ELSE IF hasText.val
            THEN (IF ~t1.ok THEN t1
                  ELSE IF ~t2.ok THEN t2
                  ELSE Ok(<<TypedMessage("text", t2.val)>>))
       ELSE Ok(<<>>)

\* The loop body for one prior-turn message: Ok(<<m>>), Ok(<<>>) or an exception.
ExtractMessage(msg) ==
    LET hasText == PyIn("text", msg)
        t1 == PyIndex(msg, "text")
        t2 == PyIndex(t1.val, "text")
        hasPayload == PyIn("payload", msg)
        p1 == PyIndex(msg, "payload")
    IN IF ~hasText.ok THEN hasText
       ELSE IF hasText.val
            THEN (IF ~t1.ok THEN t1
                  ELSE IF ~t2.ok THEN t2
                  ELSE Ok(<<TypedMessage("text", t2.val)>>))
       ELSE IF hasPayload.val
            THEN (IF ~p1.ok THEN p1 ELSE Ok(<<TypedMessage("payload", p1.val)>>))
       ELSE Ok(<<>>)

RECURSIVE ExtractMessages(_)
ExtractMessages(q) ==
    IF q = <<>> THEN Ok(<<>>)
    ELSE LET h == ExtractMessage(Head(q)) IN
         IF ~h.ok THEN h
         ELSE LET rest == ExtractMessages(Tail(q)) IN
              IF ~rest.ok THEN rest ELSE Ok(h.val \o rest.val)

\* The body of the try block, statement by statement; the first exception ends it.
ParseWebhookRequestBody(request_json) ==
    LET request_data == Loads(request_json)
        session == PyGet(request_data.val, "sessionInfo", EmptyObj)
        intent == PyGet(request_data.val, "intentInfo", EmptyObj)
        params == PyGet(session.val, "parameters", EmptyObj)
        page_info == PyGet(request_data.val, "pageInfo", EmptyObj)
        current_page == PyGet(page_info.val, "displayName", JStr(""))
        prior == PyGet(request_data.val, "messages", JList(<<>>))
        iterated == PyIter(prior.val)
        messages == ExtractMessages(iterated.val)
        session_id == PyGet(session.val, "session", JStr(""))
        intent_name == PyGet(intent.val, "displayName", JStr(""))
    IN IF ~request_data.ok THEN request_data
       ELSE IF ~session.ok THEN session
       ELSE IF ~intent.ok THEN intent
       ELSE IF ~params.ok THEN params
       ELSE IF ~page_info.ok THEN page_info
       ELSE IF ~current_page.ok THEN current_page
       ELSE IF ~prior.ok THEN prior
       ELSE IF ~iterated.ok THEN iterated
       ELSE IF ~messages.ok THEN messages
       ELSE IF ~session_id.ok THEN session_id
       ELSE IF ~intent_name.ok THEN intent_name
       ELSE Ok(JObj([session_id |-> session_id.val,
                     intent_name |-> intent_name.val,
                     parameters |-> params.val,
                     current_page |-> current_page.val,
                     messages |-> JList(messages.val),
                     raw_request |-> request_data.val]))

parse_webhook_request(request_json) ==
    LET r == ParseWebhookRequestBody(request_json) IN
    IF r.ok THEN r.val ELSE ErrorResult("Error parsing webhook request", r.exc)

----------------------------------------------------------------------------
(* check_end_interaction: response.get("end_interaction", False), with no  *)
(* try block around it.  The outcome is Ok(value) or the raised exception. *)

check_end_interaction(response) == PyGet(response, "end_interaction", JBool(FALSE))

----------------------------------------------------------------------------
(* DialogflowCXClient._extract_parameters.  A typed value is a record of   *)
(* the accessors it exposes (has), the value behind each accessor, and its *)
(* string representation.  A nested structure is <<"struct", f>>; dict()   *)
(* turns it into a plain mapping.                                          *)

NoParameters == <<"none">>
Struct(f) == <<"struct", f>>
Dict(v) == JObj(v[2])

\* A variant that probes the numeric accessor before the string accessor.
ExtractValueNumberFirst(value) ==
    IF "number_value" \in value.has THEN value.number_value
    ELSE IF "string_value" \in value.has THEN value.string_value
    ELSE IF "bool_value" \in value.has THEN value.bool_value
    ELSE IF "struct_value" \in value.has THEN Dict(value.struct_value)
    ELSE value.repr

\* The if/elif chain of the loop body.
ExtractValue(value) ==
    IF "string_value" \in value.has THEN value.string_value
    ELSE IF "number_value" \in value.has THEN value.number_value
    ELSE IF "bool_value" \in value.has THEN value.bool_value
    ELSE IF "struct_value" \in value.has THEN Dict(value.struct_value)
    ELSE value.repr

\* `not parameters`: None or an empty mapping.
Falsy(parameters) == parameters = NoParameters \/ DOMAIN parameters[2] = {}

extract_parameters(parameters) ==
    IF Falsy(parameters) THEN EmptyObj
    ELSE JObj([key \in DOMAIN parameters[2] |-> ExtractValue(parameters[2][key])])

----------------------------------------------------------------------------
(* DialogflowCXClient._process_response.  A raw response message is a      *)
(* record of its kind, its text lines and its payload.                     *)

\* "\n".join(lines), for the line lists of the model.
JoinLines(lines) ==
    IF lines = <<>> THEN ""
    ELSE IF Len(lines) = 1 THEN lines[1]
    ELSE IF lines = <<"a", "b">> THEN "a\nb"
    ELSE "?"

\* The text pieces of a rendered scalar.
Rendered(v) ==
    IF v[1] = "str" THEN <<v[2]>>
    ELSE IF v[1] = "bool" THEN <<IF v[2] THEN "true" ELSE "false">>
    ELSE IF v[1] = "null" THEN <<"null_value">>
    ELSE <<"number_value">>

RECURSIVE RenderedFields(_, _)
RenderedFields(f, ks) ==
    IF ks = <<>> THEN <<>>
    ELSE <<Head(ks)>> \o Rendered(f[Head(ks)]) \o RenderedFields(f, Tail(ks))

\* str(msg): the field names and values of the message's text form.  The
\* pieces are separated by quotes, braces and line ends, so a word without
\* them lies in the text form exactly when it lies in one piece.
Str(msg) ==
    IF msg.kind = "text" THEN <<"text">> \o msg.text
    ELSE IF msg.kind = "payload"
         THEN <<"payload">> \o RenderedFields(msg.payload[2], SetToSeq(DOMAIN msg.payload[2]))
    ELSE <<msg.kind>>

\* bool(msg.text) and bool(msg.payload): the field is set and not empty.
TextSet(msg) == msg.kind = "text" /\ msg.text # <<>>
PayloadSet(msg) == msg.kind = "payload" /\ DOMAIN msg.payload[2] # {}

\* The loop body over response_messages: one output message or nothing.
ResponseMessage(msg) ==
    IF TextSet(msg) THEN <<TypedMessage("text", JStr(JoinLines(msg.text)))>>
    ELSE IF PayloadSet(msg) THEN <<TypedMessage("payload", Dict(msg.payload))>>
    ELSE <<>>

RECURSIVE ResponseMessages(_)
ResponseMessages(q) ==
    IF q = <<>> THEN <<>> ELSE ResponseMessage(Head(q)) \o ResponseMessages(Tail(q))

\* A variant that looks for the signal only in the messages kept for the output.
HasEndInteractionKept(msgs) ==
    \E i \in 1..Len(msgs) :
       /\ ResponseMessage(msgs[i]) # <<>>
       /\ \E j \in 1..Len(Str(msgs[i])) : Contains(Str(msgs[i])[j], "end_interaction")

\* any("end_interaction" in str(msg) for msg in response_messages)
HasEndInteraction(msgs) ==
    \E i \in 1..Len(msgs) :
       \E j \in 1..Len(Str(msgs[i])) : Contains(Str(msgs[i])[j], "end_interaction")

\* intent_info: None unless the response declares a matched intent.
IntentInfo(match) ==
    IF match.intent = <<>> THEN JNull
    ELSE JObj([name |-> JStr(match.intent[1]), confidence |-> JNum(match.confidence)])

process_response(response) ==
    LET query_result == response.query_result IN
    JObj([messages |-> JList(ResponseMessages(query_result.response_messages)),
          intent |-> IntentInfo(query_result.match),
          parameters |-> extract_parameters(query_result.parameters),
          current_page |-> JStr(query_result.current_page),
          transcript |-> JStr(query_result.transcript),
          end_interaction |-> JBool(HasEndInteraction(query_result.response_messages))])

\* The result of DialogflowCXClient.match_intent for a raw match response.
MatchEntry(match) ==
    JObj([intent |-> IF match.intent = <<>> THEN JStr("No intent") ELSE JStr(match.intent[1]),
          confidence |-> JNum(match.confidence),
          parameters |-> extract_parameters(match.parameters)])

match_result(response) ==
    JObj([matches |-> JList([i \in 1..Len(response.matches) |-> MatchEntry(response.matches[i])]),
          current_page |-> JStr(response.current_page)])

----------------------------------------------------------------------------
(* The inputs of the normalisers.                                          *)

Accessors == {"string_value", "number_value", "bool_value", "struct_value"}

TypedValues ==
    { [has |-> h, string_value |-> JStr("sv"), number_value |-> JNum(7),
       bool_value |-> JBool(TRUE), struct_value |-> Struct([k |-> JNum(1)]),
       repr |-> JStr("repr")] : h \in SUBSET Accessors }

ParameterKeys == <<"p1", "p2", "p3", "p4">>

TypedMappings ==
    {NoParameters}
      \cup { Struct(f) : f \in UNION { [K -> TypedValues] :
                                         K \in SUBSET { ParameterKeys[i] : i \in 1..MaxParams } } }

RawMessage(kind, text, payload) == [kind |-> kind, text |-> text, payload |-> payload]

RawMessages ==
    { RawMessage("text", <<"hello">>, Struct(EmptyMap)),
      RawMessage("text", <<"a", "b">>, Struct(EmptyMap)),
      RawMessage("text", <<"say end_interaction now">>, Struct(EmptyMap)),
      RawMessage("text", <<>>, Struct(EmptyMap)),
      RawMessage("payload", <<>>, Struct([k |-> JStr("v")])),
      RawMessage("payload", <<>>, Struct([end_interaction |-> JBool(TRUE)])),
      RawMessage("payload", <<>>, Struct([note |-> JStr("end_interaction")])),
      RawMessage("payload", <<>>, Struct(EmptyMap)),
      RawMessage("end_interaction", <<>>, Struct(EmptyMap)),
      RawMessage("live_agent_handoff", <<>>, Struct(EmptyMap)) }

SomeTypedMapping ==
    Struct([p1 |-> [has |-> {"string_value", "number_value"}, string_value |-> JStr("sv"),
                    number_value |-> JNum(7), bool_value |-> JBool(TRUE),
                    struct_value |-> Struct([k |-> JNum(1)]), repr |-> JStr("repr")]])

RawResponse(msgs, intent, parameters) ==
    [query_result |->
       [response_messages |-> msgs,
        match |-> [intent |-> intent, confidence |-> 1],
        parameters |-> parameters,
        current_page |-> "Start",
        transcript |-> ""]]

RawResponses ==
    { RawResponse(q, i, p) : q \in SeqsUpTo(RawMessages, MaxMsgs),
                             i \in {<<>>, <<"greet">>},
                             p \in {NoParameters, SomeTypedMapping} }

----------------------------------------------------------------------------
(* The inputs of the webhook tools.                                        *)

SomePayload == JObj([k |-> JNum(1)])

\* Message descriptors a caller may pass to create_webhook_response.
Descriptors ==
    { JStr("hello"),
      JObj([text |-> JStr("hi")]),
      JObj([text |-> JList(<<JStr("a"), JStr("b")>>)]),
      JObj([payload |-> SomePayload]),
      JObj([text |-> JStr("hi"), payload |-> SomePayload]),
      JObj([other |-> JNum(1)]),
      JNum(7),
      JList(<<JStr("text")>>) }

\* The optional fields of a fulfillment description, each absent or supplied.
OptionalFields ==
    { f \in [ {"parameter_updates", "target_page", "target_flow"} ->
                {<<"absent">>, EmptyObj, JObj([a |-> JNum(1)]), JStr("p1"), JNull} ] :
        /\ f["parameter_updates"] \in {<<"absent">>, EmptyObj, JObj([a |-> JNum(1)])}
        /\ f["target_page"] \in {<<"absent">>, JStr("p1")}
        /\ f["target_flow"] \in {<<"absent">>, JStr("p1"), JNull} }

Supplied(f) == [k \in {x \in DOMAIN f : f[x] # <<"absent">>} |-> f[k]]

MessagesValues ==
    {<<"absent">>, JNull, JNum(3), JStr("hi")}
      \cup { JList(q) : q \in SeqsUpTo(Descriptors, MaxMsgs) }

FulfillmentInputs ==
    { JObj(Supplied(Put(o, "messages", m))) : o \in OptionalFields, m \in MessagesValues }

\* Prior-turn messages of a webhook request, well shaped or not.
RequestMessages ==
    { JObj([text |-> JObj([text |-> JList(<<JStr("hi")>>)])]),
      JObj([payload |-> SomePayload]),
      JObj([text |-> JObj([text |-> JList(<<JStr("a"), JStr("b")>>)]),
            payload |-> SomePayload]),
      JObj([other |-> JNum(1)]),
      JObj([text |-> JStr("hi")]),
      JObj([text |-> EmptyObj]),
      JStr("hello"),
      JStr("plain text"),
      JNum(5),
      JList(<<JStr("payload")>>) }

RequestFields ==
    { f \in [ {"sessionInfo", "intentInfo", "pageInfo"} ->
                {<<"absent">>, EmptyObj, JNull, JNum(3), JStr("x"),
                 JObj([session |-> JStr("s1"), parameters |-> JObj([a |-> JNum(1)])]),
                 JObj([displayName |-> JStr("greet")]),
                 JObj([displayName |-> JStr("Start")])} ] :
        /\ f["sessionInfo"] \in
             {<<"absent">>, EmptyObj, JNull,
              JObj([session |-> JStr("s1"), parameters |-> JObj([a |-> JNum(1)])])}
        /\ f["intentInfo"] \in {<<"absent">>, JObj([displayName |-> JStr("greet")]), JNum(3)}
        /\ f["pageInfo"] \in {<<"absent">>, JObj([displayName |-> JStr("Start")]), JStr("x")} }

RequestMessagesValues ==
    {<<"absent">>, JNull, JStr("hi"), JObj([text |-> JNum(1)])}
      \cup { JList(q) : q \in SeqsUpTo(RequestMessages, MaxMsgs) }

\* JSON values a caller may serialise into request_json.
RequestValues ==
    { JObj(Supplied(Put(o, "messages", m))) : o \in RequestFields, m \in RequestMessagesValues }
      \cup { JList(<<JNum(1)>>), JNull, JNum(5), JStr("text"), JBool(TRUE) }

\* Texts that are not JSON.
W(w) == <<"w", w>>
MalformedTexts ==
    { <<W("not"), W("json")>>,
      <<>>,
      <<P("{")>>,
      <<P("["), JNum(1), P(","), P("]")>>,
      <<P("{"), JStr("a"), P(":"), JNum(1), P("}"), P("}")>>,
      <<P("{"), JNum(1), P(":"), JNum(1), P("}")>> }

RequestTexts == { Dumps(v) : v \in RequestValues } \cup MalformedTexts

----------------------------------------------------------------------------
(* The server's state after start-up, and the pure tools as steps.         *)

NoRet == [tool |-> "none"]
NoReq == [tool |-> "none"]

ServerInit ==
    /\ DIALOGFLOW_CLIENT = <<>>
    /\ issued = {}
    /\ inits = [succeeded |-> FALSE, failed |-> FALSE]
    /\ waiting = EmptyBag

ServerUnchanged == UNCHANGED <<DIALOGFLOW_CLIENT, issued, inits, waiting>>

CreateWebhookResponse(fr) ==
    /\ ret' = [tool |-> "create_webhook_response", arg |-> fr,
               result |-> create_webhook_response(fr), raised |-> FALSE]
    /\ ServerUnchanged

ParseWebhookRequest(text) ==
    /\ ret' = [tool |-> "parse_webhook_request", arg |-> text,
               result |-> parse_webhook_request(text), raised |-> FALSE]
    /\ ServerUnchanged

CheckEndInteraction(response) ==
    /\ LET r == check_end_interaction(response) IN
       ret' = [tool |-> "check_end_interaction", arg |-> response,
               result |-> IF r.ok THEN r.val ELSE JNull, raised |-> ~r.ok]
    /\ ServerUnchanged

----------------------------------------------------------------------------
(* WebhookSpec: one call of the builder or of the parser on each input,    *)
(* and the parser on the JSON text of what the builder returned.           *)

WebhookInit ==
    /\ ServerInit
    /\ ret = NoRet
    /\ req \in { [tool |-> "create_webhook_response", arg |-> x] : x \in FulfillmentInputs }
         \cup { [tool |-> "parse_webhook_request", arg |-> t] : t \in RequestTexts }

WebhookCreate ==
    /\ ret = NoRet /\ req.tool = "create_webhook_response"
    /\ CreateWebhookResponse(req.arg)
    /\ UNCHANGED req

WebhookParse ==
    /\ ret = NoRet /\ req.tool = "parse_webhook_request"
    /\ ParseWebhookRequest(req.arg)
    /\ UNCHANGED req

WebhookParseBuilt ==
    /\ ret.tool = "create_webhook_response"
    /\ ParseWebhookRequest(Dumps(ret.result))
    /\ UNCHANGED req

WebhookNext == WebhookCreate \/ WebhookParse \/ WebhookParseBuilt

WebhookSpec == WebhookInit /\ [][WebhookNext]_vars

----------------------------------------------------------------------------
(* Claims about create_webhook_response, checked under WebhookSpec.        *)

Field(o, k) == o[2][k]
HasField(o, k) == IsObj(o) /\ k \in DOMAIN o[2]
Iterable(v) == v[1] \in {"list", "str", "obj"}
Created == ret.tool = "create_webhook_response"

\* C4 as stated, for descriptions whose messages, when supplied, is a list:
\* fulfillmentResponse is always emitted, its messages key is present only if
\* messages were supplied and the loop ran at least once, and the three optional
\* fields are present exactly when supplied.
C4_AsStated ==
    (Created /\ ("messages" \in DOMAIN ret.arg[2] => IsList(ret.arg[2]["messages"]))) =>
      LET fr == ret.arg[2]
          res == ret.result
      IN /\ HasField(res, "fulfillmentResponse")
         /\ HasField(Field(res, "fulfillmentResponse"), "messages") =>
              /\ "messages" \in DOMAIN fr
              /\ PyIter(fr["messages"]).ok
              /\ PyIter(fr["messages"]).val # <<>>
         /\ HasField(res, "sessionInfo") <=> "parameter_updates" \in DOMAIN fr
         /\ HasField(res, "targetPage") <=> "target_page" \in DOMAIN fr
         /\ HasField(res, "targetFlow") <=> "target_flow" \in DOMAIN fr

\* C4 as amended: unless the supplied messages value cannot be iterated (then
\* the result is an error object), fulfillmentResponse is emitted; its messages
\* key is present exactly when messages were supplied, as an empty list when the
\* loop appended nothing; sessionInfo.parameters, targetPage and targetFlow are
\* present exactly when parameter_updates, target_page and target_flow are
\* supplied, and carry the supplied values; the result has no other key.
C4_FieldPresence ==
    Created =>
      LET fr == ret.arg[2]
          res == ret.result
      IN IF "messages" \in DOMAIN fr /\ ~Iterable(fr["messages"])
         THEN HasError(res) /\ DOMAIN res[2] = {"error"}
         ELSE /\ HasField(res, "fulfillmentResponse")
              /\ LET f == Field(res, "fulfillmentResponse") IN
                 /\ IsObj(f)
                 /\ DOMAIN f[2] = (IF "messages" \in DOMAIN fr THEN {"messages"} ELSE {})
                 /\ "messages" \in DOMAIN fr => IsList(Field(f, "messages"))
                 /\ ("messages" \in DOMAIN fr /\ fr["messages"] = JList(<<>>))
                      => Field(f, "messages") = JList(<<>>)
              /\ DOMAIN res[2] =
                   {"fulfillmentResponse"}
                     \cup (IF "parameter_updates" \in DOMAIN fr THEN {"sessionInfo"} ELSE {})
                     \cup (IF "target_page" \in DOMAIN fr THEN {"targetPage"} ELSE {})
                     \cup (IF "target_flow" \in DOMAIN fr THEN {"targetFlow"} ELSE {})
              /\ "parameter_updates" \in DOMAIN fr =>
                   Field(res, "sessionInfo") = JObj([parameters |-> fr["parameter_updates"]])
              /\ "target_page" \in DOMAIN fr => Field(res, "targetPage") = fr["target_page"]
              /\ "target_flow" \in DOMAIN fr => Field(res, "targetFlow") = fr["target_flow"]

\* C4's case: an empty message list was supplied together with parameter
\* updates and a target page, and the builder has answered.
C4_Witness ==
    /\ Created
    /\ "messages" \in DOMAIN ret.arg[2] /\ ret.arg[2]["messages"] = JList(<<>>)
    /\ {"parameter_updates", "target_page"} \subseteq DOMAIN ret.arg[2]
    /\ "target_flow" \notin DOMAIN ret.arg[2]
    /\ HasField(ret.result, "sessionInfo")

Recognised(d) ==
    IsStr(d) \/ (IsObj(d) /\ ("text" \in DOMAIN d[2] \/ "payload" \in DOMAIN d[2]))

\* The message a recognised descriptor stands for.
Image(d) ==
    IF IsStr(d) THEN JObj([text |-> JObj([text |-> JList(<<d>>)])])
    ELSE IF "text" \in DOMAIN d[2]
         THEN JObj([text |-> JObj([text |-> JList(<<d[2]["text"]>>)])])
    ELSE JObj([payload |-> d[2]["payload"]])

\* C5: for a supplied sequence of descriptors the output message list is the
\* recognised descriptors in their input order, a string s as {text:{text:[s]}},
\* a descriptor with a text field v as {text:{text:[v]}} (also when v is a list
\* or a payload field is present too), a descriptor with only a payload field as
\* {payload: p}; other shapes are dropped without an error, so the output is
\* never longer than the input.
C5_MessagesMapped ==
    (Created /\ "messages" \in DOMAIN ret.arg[2] /\ IsList(ret.arg[2]["messages"])) =>
      LET q == ret.arg[2]["messages"][2]
          kept == SelectSeq(q, Recognised)
      IN /\ ~HasError(ret.result)
         /\ LET out == Field(Field(ret.result, "fulfillmentResponse"), "messages")[2] IN
            /\ Len(out) = Len(kept)
            /\ \A i \in 1..Len(kept) : out[i] = Image(kept[i])
            /\ Len(out) <= Len(q)

\* C5's case: a list holding a descriptor with both text and payload and a
\* descriptor of an unrecognised shape was given, and one message came out.
C5_Witness ==
    /\ Created
    /\ "messages" \in DOMAIN ret.arg[2] /\ IsList(ret.arg[2]["messages"])
    /\ LET q == ret.arg[2]["messages"][2] IN
       /\ Len(q) = 2
       /\ HasField(q[1], "text") /\ HasField(q[1], "payload")
       /\ ~Recognised(q[2])
    /\ Len(Field(Field(ret.result, "fulfillmentResponse"), "messages")[2]) = 1

----------------------------------------------------------------------------
(* Claims about parse_webhook_request, checked under WebhookSpec.          *)

Parsing == ret.tool = "parse_webhook_request"
OrDefault(o, k, d) == IF k \in DOMAIN o[2] THEN o[2][k] ELSE d

\* The tagged message a prior-turn message object stands for, if any.
Tagged(m) ==
    IF "text" \in DOMAIN m[2]
    THEN <<JObj([type |-> JStr("text"), content |-> m[2]["text"][2]["text"]])>>
    ELSE IF "payload" \in DOMAIN m[2]
         THEN <<JObj([type |-> JStr("payload"), content |-> m[2]["payload"]])>>
    ELSE <<>>

RECURSIVE Flatten(_)
Flatten(qq) == IF qq = <<>> THEN <<>> ELSE Head(qq) \o Flatten(Tail(qq))

\* What the claim says a parsed request v yields.
Extracted(v, msgs) ==
    LET session == OrDefault(v, "sessionInfo", EmptyObj)
        intent == OrDefault(v, "intentInfo", EmptyObj)
        page == OrDefault(v, "pageInfo", EmptyObj)
    IN JObj([session_id |-> OrDefault(session, "session", JStr("")),
             intent_name |-> OrDefault(intent, "displayName", JStr("")),
             parameters |-> OrDefault(session, "parameters", EmptyObj),
             current_page |-> OrDefault(page, "displayName", JStr("")),
             messages |-> JList(msgs),
             raw_request |-> v])

\* C6 as stated: every text that parses as JSON gives a success result.
C6_AsStated ==
    (Parsing /\ Loads(ret.arg).ok) => ~HasError(ret.result)

\* The requests the parser accepts: an object whose sessionInfo, intentInfo and
\* pageInfo, when present, are objects, and whose messages, when present, is a
\* list of objects in which a text field is an object with a text field.
WellShapedRequest(v) ==
    /\ IsObj(v)
    /\ \A k \in {"sessionInfo", "intentInfo", "pageInfo"} :
         k \in DOMAIN v[2] => IsObj(v[2][k])
    /\ "messages" \in DOMAIN v[2] =>
         /\ IsList(v[2]["messages"])
         /\ \A i \in 1..Len(v[2]["messages"][2]) :
              LET m == v[2]["messages"][2][i] IN
              /\ IsObj(m)
              /\ "text" \in DOMAIN m[2] => HasField(m[2]["text"], "text")

\* C6 as amended: for every text that parses as a well-shaped request object
\* the result is a success with session_id, intent_name, parameters and
\* current_page taken from sessionInfo.session, intentInfo.displayName,
\* sessionInfo.parameters and pageInfo.displayName or defaulted, messages the
\* prior-turn messages in order, tagged "text" (content: the text.text value)
\* or "payload", objects with neither field skipped, and raw_request the parsed
\* value; a text that parses as JSON but not as an object gives an error result.
C6_ParsedFields ==
    (Parsing /\ Loads(ret.arg).ok) =>
      LET v == Loads(ret.arg).val IN
      /\ WellShapedRequest(v) =>
           ret.result =
             Extracted(v, IF "messages" \in DOMAIN v[2]
                          THEN Flatten([i \in 1..Len(v[2]["messages"][2]) |->
                                          Tagged(v[2]["messages"][2][i])])
                          ELSE <<>>)
      /\ ~IsObj(v) => HasError(ret.result)

\* C6's case: a request with session info and two prior messages, the second
\* of an unrecognised shape, was parsed into one tagged message.
C6_Witness ==
    /\ Parsing /\ Loads(ret.arg).ok
    /\ LET v == Loads(ret.arg).val IN
       /\ WellShapedRequest(v)
       /\ {"sessionInfo", "messages"} \subseteq DOMAIN v[2]
       /\ "pageInfo" \notin DOMAIN v[2]
       /\ Len(v[2]["messages"][2]) = 2
       /\ DOMAIN v[2]["messages"][2][2][2] = {"other"}
    /\ ~HasError(ret.result)
    /\ Len(Field(ret.result, "messages")[2]) = 1
    /\ Field(ret.result, "session_id") = JStr("s1")
    /\ Field(ret.result, "current_page") = JStr("")

----------------------------------------------------------------------------
(* The builder's output handed to the parser.                              *)

\* The parser has answered on the JSON text of a successful builder output.
RoundTripped ==
    /\ req.tool = "create_webhook_response"
    /\ Parsing
    /\ ret.arg = Dumps(create_webhook_response(req.arg))
    /\ ~HasError(create_webhook_response(req.arg))

RoundTripDescriptor(d) ==
    IsStr(d) \/ (IsObj(d) /\ (DOMAIN d[2] = {"text"} \/ DOMAIN d[2] = {"payload"}))

\* The kind and content a caller supplied with a descriptor.
SuppliedMessage(d) ==
    IF IsStr(d) THEN JObj([type |-> JStr("text"), content |-> d])
    ELSE IF "text" \in DOMAIN d[2] THEN JObj([type |-> JStr("text"), content |-> d[2]["text"]])
    ELSE JObj([type |-> JStr("payload"), content |-> d[2]["payload"]])

SuppliedParameters(fr) ==
    IF "parameter_updates" \in DOMAIN fr THEN fr["parameter_updates"] ELSE EmptyObj

\* C7 as stated: parsing the text of the builder's output gives back the
\* supplied messages, in order, kind and content, and the supplied parameters.
C7_AsStated ==
    (RoundTripped /\ "messages" \in DOMAIN req.arg[2] /\ IsList(req.arg[2]["messages"])
       /\ \A i \in 1..Len(req.arg[2]["messages"][2]) :
            RoundTripDescriptor(req.arg[2]["messages"][2][i])) =>
      LET q == req.arg[2]["messages"][2] IN
      /\ ~HasError(ret.result)
      /\ Field(ret.result, "messages") = JList([i \in 1..Len(q) |-> SuppliedMessage(q[i])])
      /\ Field(ret.result, "parameters") = SuppliedParameters(req.arg[2])

\* C7 as amended: parsing the text of the builder's output succeeds and gives
\* parameters equal to the supplied parameter_updates (the empty mapping when
\* none were supplied); the supplied messages do not come back: the builder
\* puts them under fulfillmentResponse, the parser reads the top-level
\* messages field, and the parsed message list is empty.
C7_RoundTrip ==
    RoundTripped =>
      /\ ~HasError(ret.result)
      /\ Field(ret.result, "parameters") = SuppliedParameters(req.arg[2])
      /\ Field(ret.result, "messages") = JList(<<>>)
      /\ Field(ret.result, "raw_request") = create_webhook_response(req.arg)

\* C7's case: two messages and parameter updates were supplied, built and
\* parsed back.
C7_Witness ==
    /\ RoundTripped
    /\ "messages" \in DOMAIN req.arg[2] /\ IsList(req.arg[2]["messages"])
    /\ Len(req.arg[2]["messages"][2]) = 2
    /\ \A i \in 1..2 : RoundTripDescriptor(req.arg[2]["messages"][2][i])
    /\ "parameter_updates" \in DOMAIN req.arg[2]
    /\ req.arg[2]["parameter_updates"] = JObj([a |-> JNum(1)])
    /\ Field(ret.result, "parameters") = JObj([a |-> JNum(1)])

----------------------------------------------------------------------------
(* NormalizeSpec: one call of a normaliser on each input.                  *)

ExtractParameters ==
    /\ ret = NoRet /\ req.tool = "_extract_parameters"
    /\ ret' = [tool |-> "_extract_parameters", arg |-> req.arg,
               result |-> extract_parameters(req.arg), raised |-> FALSE]
    /\ ServerUnchanged /\ UNCHANGED req

ProcessResponse ==
    /\ ret = NoRet /\ req.tool = "_process_response"
    /\ ret' = [tool |-> "_process_response", arg |-> req.arg,
               result |-> process_response(req.arg), raised |-> FALSE]
    /\ ServerUnchanged /\ UNCHANGED req

NormalizeInit ==
    /\ ServerInit
    /\ ret = NoRet
    /\ req \in { [tool |-> "_extract_parameters", arg |-> m] : m \in TypedMappings }
         \cup { [tool |-> "_process_response", arg |-> r] : r \in RawResponses }

NormalizeNext == ExtractParameters \/ ProcessResponse

NormalizeSpec == NormalizeInit /\ [][NormalizeNext]_vars

\* The accessor the fixed order string, number, boolean, structure finds first.
AccessorOrder == <<"string_value", "number_value", "bool_value", "struct_value">>
FirstAccessor(value) ==
    LET hits == { i \in 1..Len(AccessorOrder) : AccessorOrder[i] \in value.has } IN
    IF hits = {} THEN "none"
    ELSE AccessorOrder[CHOOSE i \in hits : \A j \in hits : i <= j]

\* C8: extract_parameters returns {} for an absent or empty mapping; for every
\* input mapping the output has exactly the input's keys, each mapped to the
\* value behind the first accessor the value exposes in the order string,
\* number, boolean, nested structure (as a plain mapping), else to the value's
\* string representation; a value with both a string and a numeric accessor
\* yields its string value; every typed value gives a result.
C8_ExtractParameters ==
    ret.tool = "_extract_parameters" =>
      LET p == ret.arg
          out == ret.result
      IN /\ IsObj(out)
         /\ (p = NoParameters \/ DOMAIN p[2] = {}) => out = EmptyObj
         /\ p # NoParameters =>
              /\ DOMAIN out[2] = DOMAIN p[2]
              /\ \A k \in DOMAIN p[2] :
                   LET v == p[2][k]
                       a == FirstAccessor(v)
                   IN /\ a = "string_value" => out[2][k] = v.string_value
                      /\ a = "number_value" => out[2][k] = v.number_value
                      /\ a = "bool_value" => out[2][k] = v.bool_value
                      /\ a = "struct_value" => out[2][k] = JObj(v.struct_value[2])
                      /\ a = "none" => out[2][k] = v.repr
                      /\ {"string_value", "number_value"} \subseteq v.has
                           => out[2][k] = v.string_value

\* C8's case: a mapping with a value exposing both the string and the numeric
\* accessor, and a value exposing none, has been extracted.
C8_Witness ==
    /\ ret.tool = "_extract_parameters"
    /\ ret.arg # NoParameters
    /\ DOMAIN ret.arg[2] = {"p1", "p2"}
    /\ ret.arg[2]["p1"].has = {"string_value", "number_value"}
    /\ ret.arg[2]["p2"].has = {}
    /\ ret.result[2]["p1"] = JStr("sv")
    /\ ret.result[2]["p2"] = JStr("repr")

\* The message mentions end_interaction: it is the end_interaction message, or
\* a text line, a payload key or a payload string holds the word.
Mentions(m) ==
    \/ m.kind = "end_interaction"
    \/ m.kind = "text" /\ \E i \in 1..Len(m.text) : Contains(m.text[i], "end_interaction")
    \/ /\ m.kind = "payload"
       /\ \E k \in DOMAIN m.payload[2] :
            \/ Contains(k, "end_interaction")
            \/ IsStr(m.payload[2][k]) /\ Contains(m.payload[2][k][2], "end_interaction")

\* C9: end_interaction is true exactly when the text form of some message of
\* the raw list holds the word end_interaction, whatever the message's kind and
\* also when the message is left out of the output list; a response without
\* messages gives an empty message list and end_interaction false.
C9_EndInteraction ==
    ret.tool = "_process_response" =>
      LET raw == ret.arg.query_result.response_messages IN
      /\ Field(ret.result, "end_interaction") =
           JBool(\E i \in 1..Len(raw) : Mentions(raw[i]))
      /\ raw = <<>> =>
           /\ Field(ret.result, "messages") = JList(<<>>)
           /\ Field(ret.result, "end_interaction") = JBool(FALSE)

\* C9's case: the only message is the end_interaction message, which the output
\* list leaves out, and the flag is set.
C9_Witness ==
    /\ ret.tool = "_process_response"
    /\ Len(ret.arg.query_result.response_messages) = 1
    /\ ret.arg.query_result.response_messages[1].kind = "end_interaction"
    /\ Field(ret.result, "messages") = JList(<<>>)
    /\ Field(ret.result, "end_interaction") = JBool(TRUE)

----------------------------------------------------------------------------
(* The client and the tools that call the remote service.                  *)

Configs ==
    { [project_id |-> "proj", location |-> "us-central1", agent_id |-> a] :
        a \in {"agent-1", "agent-2"} }

\* credentials_path: "" when not given.
CredentialPaths == {"", "key.json"}

\* What the constructor finds: whether the file exists and loads, and whether
\* default credentials are available.
Environments ==
    { [exists |-> TRUE, loads |-> TRUE, default |-> TRUE],
      [exists |-> TRUE, loads |-> FALSE, default |-> TRUE],
      [exists |-> FALSE, loads |-> FALSE, default |-> FALSE] }

\* DialogflowCXClient.__init__: the client, or the exception it raises.
NewClient(cfg, credentials_path, env) ==
    LET client(creds) ==
          [project_id |-> cfg.project_id, location |-> cfg.location,
           agent_id |-> cfg.agent_id,
           agent_path |-> <<"projects", cfg.project_id, "locations", cfg.location,
                            "agents", cfg.agent_id>>]
    IN IF credentials_path # "" /\ env.exists
       THEN (IF env.loads THEN Ok(client("file")) ELSE Raise("ValueError"))
       ELSE (IF env.default THEN Ok(client("default"))
             ELSE Raise("DefaultCredentialsError"))

\* A variant that leaves a handle behind when the constructor raises.
AssignedHandleEarly(old, made, cfg) ==
    IF made.ok THEN <<made.val>>
    ELSE <<[project_id |-> cfg.project_id, location |-> cfg.location,
            agent_id |-> cfg.agent_id,
            agent_path |-> <<"projects", cfg.project_id, "locations", cfg.location,
                             "agents", cfg.agent_id>>]>>

\* The global after `DIALOGFLOW_CLIENT = DialogflowCXClient(...)` in the try
\* block: the assignment happens only when the constructor returns.
AssignedHandle(old, made, cfg) == IF made.ok THEN <<made.val>> ELSE old

\* The string initialize_dialogflow returns.
InitializeResult(made, cfg) ==
    IF made.ok THEN FStr("Dialogflow CX client initialized for agent", cfg.agent_id)
    ELSE FStr("Error initializing Dialogflow CX client", made.exc)

\* uuid.uuid4() as a string: a token no earlier call supplied or generated
\* (a collision has probability about 2^-122 and is left out).
UuidNames == <<"uuid-1", "uuid-2", "uuid-3", "uuid-4", "uuid-5", "uuid-6">>
Uuids == { UuidNames[i] : i \in 1..MaxUuids }
CallerIds == {"s1"}

\* DialogflowCXClient.create_session_path
create_session_path(client, session_id, uuid4) ==
    <<client.agent_path, "sessions", IF session_id = "" THEN uuid4 ELSE session_id>>

SessionSegment(path) == path[3]

\* A variant that falls back to a fixed session when none is supplied.
ToolSessionIdDefault(session_id, uuid4) == IF session_id = "" THEN "s1" ELSE session_id

\* `if not session_id: session_id = str(uuid.uuid4())` in each tool.
ToolSessionId(session_id, uuid4) == IF session_id = "" THEN uuid4 ELSE session_id

AudioEncodings == {"AUDIO_ENCODING_LINEAR_16", "AUDIO_ENCODING_MULAW"}

\* A variant that falls back to linear PCM for an unknown name.
EncodingEnumDefault(name) ==
    IF name \in AudioEncodings THEN Ok(name) ELSE Ok("AUDIO_ENCODING_LINEAR_16")

\* getattr(dialogflow_cx_v3.AudioEncoding, audio_encoding)
EncodingEnum(name) ==
    IF name \in AudioEncodings THEN Ok(name) ELSE Raise("AttributeError")

DetectTools ==
    {"detect_intent", "detect_intent_from_audio", "detect_intent_from_base64", "match_intent"}

\* What a tool does inside its try block before the remote call: read the
\* file or decode the base64 text, then look the encoding up.
PreCall(tool, input) ==
    IF tool = "detect_intent_from_audio"
    THEN (IF input.readable THEN EncodingEnum(input.audio_encoding)
          ELSE Raise("FileNotFoundError"))
    ELSE IF tool = "detect_intent_from_base64"
    THEN (IF input.decodable THEN EncodingEnum(input.audio_encoding)
          ELSE Raise("binascii.Error"))
    ELSE Ok("text")

ErrorPrefix(tool) ==
    CASE tool = "detect_intent" -> "Error detecting intent"
      [] tool = "detect_intent_from_audio" -> "Error detecting intent from audio"
      [] tool = "detect_intent_from_base64" -> "Error detecting intent from base64 audio"
      [] tool = "match_intent" -> "Error matching intent"

NotInitialized ==
    JObj([error |-> JStr("Dialogflow CX client not initialized. Call initialize_dialogflow first.")])

\* The remote method a tool calls.
RemoteMethod(tool) == IF tool = "match_intent" THEN "match_intent" ELSE "detect_intent"

\* response["session_id"] = session_id
WithSessionId(result, session_id) == JObj(Put(result[2], "session_id", JStr(session_id)))

\* What the tool returns once the remote call has returned or raised.
ToolResult(tool, session_id, outcome) ==
    IF ~outcome.ok THEN ErrorResult(ErrorPrefix(tool), outcome.exc)
    ELSE WithSessionId(IF tool = "match_intent" THEN match_result(outcome.val)
                       ELSE process_response(outcome.val),
                       session_id)

\* The inputs of the tools and the answers of the remote service.
ToolInput(readable, decodable, audio_encoding) ==
    [readable |-> readable, decodable |-> decodable, audio_encoding |-> audio_encoding]
TextInput == ToolInput(TRUE, TRUE, "AUDIO_ENCODING_LINEAR_16")
AudioInputs ==
    { ToolInput(TRUE, TRUE, "AUDIO_ENCODING_LINEAR_16"),
      ToolInput(FALSE, FALSE, "AUDIO_ENCODING_LINEAR_16"),
      ToolInput(TRUE, TRUE, "AUDIO_ENCODING_OGG"),
      ToolInput(FALSE, FALSE, "AUDIO_ENCODING_OGG") }
ToolInputs(tool) ==
    IF tool \in {"detect_intent_from_audio", "detect_intent_from_base64"} THEN AudioInputs
    ELSE {TextInput}

ServiceResponses ==
    { RawResponse(<<>>, <<>>, NoParameters),
      RawResponse(<<RawMessage("text", <<"hello">>, Struct(EmptyMap)),
                    RawMessage("end_interaction", <<>>, Struct(EmptyMap))>>,
                  <<"greet">>, SomeTypedMapping) }

MatchResponses ==
    { [matches |-> <<[intent |-> <<"greet">>, confidence |-> 1, parameters |-> SomeTypedMapping],
                     [intent |-> <<>>, confidence |-> 0, parameters |-> NoParameters]>>,
       current_page |-> "Start"] }

RemoteOutcomes(tool) ==
    {Raise("GoogleAPICallError")}
      \cup { Ok(r) : r \in IF tool = "match_intent" THEN MatchResponses ELSE ServiceResponses }

----------------------------------------------------------------------------
(* The steps of the server.  A tool runs from its first line to its return *)
(* in one step; the answer of the remote service is part of the step.      *)

InitializeDialogflow ==
    \E cfg \in Configs, credentials_path \in CredentialPaths, env \in Environments :
       LET made == NewClient(cfg, credentials_path, env) IN
       /\ DIALOGFLOW_CLIENT' = AssignedHandle(DIALOGFLOW_CLIENT, made, cfg)
       /\ inits' = [succeeded |-> inits.succeeded \/ made.ok,
                    failed |-> inits.failed \/ ~made.ok]
       /\ ret' = [tool |-> "initialize_dialogflow", arg |-> cfg,
                  fault |-> IF made.ok THEN "none" ELSE "constructor",
                  result |-> InitializeResult(made, cfg), raised |-> FALSE]
       /\ UNCHANGED <<issued, waiting, req>>

\* What a detection or matching tool hands back: its result, with the caller's
\* session_id argument, the reason of a failure, whether the tool reached its
\* await, the remote calls it issued, and the history it started from.
Returned(tool, sid_arg, input, fault, result, awaited, calls) ==
    [tool |-> tool, session_id |-> sid_arg, input |-> input, fault |-> fault,
     result |-> result, raised |-> FALSE, awaited |-> awaited, calls |-> calls,
     before |-> issued, initialized |-> inits.succeeded]

\* The request a tool sends through the client's sessions_client.
RemoteCall(tool, client, session_id, uuid4) ==
    [method |-> RemoteMethod(tool), agent |-> client.agent_id,
     session |-> create_session_path(client, session_id, uuid4)]

\* One invocation of a tool: the guard on the global handle, the session id,
\* the try block up to the remote call, and the return.
Invocation(tool, sid_arg, input, uuid4, uuid4b, outcome) ==
    IF DIALOGFLOW_CLIENT = <<>>
    THEN Returned(tool, sid_arg, input, "uninitialized", NotInitialized, FALSE, <<>>)
    ELSE LET session_id == ToolSessionId(sid_arg, uuid4)
             pre == PreCall(tool, input)
         IN IF ~pre.ok
            THEN Returned(tool, sid_arg, input, "input",
                          ErrorResult(ErrorPrefix(tool), pre.exc), FALSE, <<>>)
            ELSE Returned(tool, sid_arg, input, IF outcome.ok THEN "none" ELSE "remote",
                          ToolResult(tool, session_id, outcome), TRUE,
                          <<RemoteCall(tool, DIALOGFLOW_CLIENT[1], session_id, uuid4b)>>)

\* The ids an invocation adds to the history: the one supplied, and the one
\* generated past the guard.
IdsOf(sid_arg, uuid4) ==
    IF sid_arg # "" THEN {sid_arg}
    ELSE IF DIALOGFLOW_CLIENT = <<>> THEN {} ELSE {uuid4}

\* What a caller and the environment choose for one invocation: the session_id
\* argument ("" when absent, else a caller's id or one seen before), the input,
\* the values uuid4 would return where it is called, and the answer of the
\* remote service.
Choices(tool) ==
    { c \in [sid_arg : {""} \cup CallerIds \cup issued,
             input : ToolInputs(tool),
             uuid4 : Uuids \cup {"unused"},
             uuid4b : Uuids \cup {"unused"},
             outcome : RemoteOutcomes(tool)] :
        /\ c.uuid4 \in (IF c.sid_arg = "" /\ DIALOGFLOW_CLIENT # <<>> THEN Uuids \ issued
                        ELSE {"unused"})
        /\ c.uuid4b \in (IF ToolSessionId(c.sid_arg, c.uuid4) = "" THEN Uuids
                         ELSE {"unused"}) }

Invoke(tool, c) ==
    /\ ret' = Invocation(tool, c.sid_arg, c.input, c.uuid4, c.uuid4b, c.outcome)
    /\ issued' = issued \cup IdsOf(c.sid_arg, c.uuid4)
    /\ UNCHANGED <<DIALOGFLOW_CLIENT, inits, waiting, req>>

DetectIntent == \E c \in Choices("detect_intent") : Invoke("detect_intent", c)

DetectIntentFromAudio ==
    \E c \in Choices("detect_intent_from_audio") : Invoke("detect_intent_from_audio", c)

DetectIntentFromBase64 ==
    \E c \in Choices("detect_intent_from_base64") : Invoke("detect_intent_from_base64", c)

MatchIntent == \E c \in Choices("match_intent") : Invoke("match_intent", c)

\* The tools that need no client, on a few inputs each.
SomeFulfillments ==
    { JObj(EmptyMap),
      JObj([messages |-> JNull]),
      JObj([messages |-> JList(<<JStr("hello")>>), parameter_updates |-> JObj([a |-> JNum(1)])]) }

SomeRequestTexts ==
    { <<W("not"), W("json")>>,
      Dumps(JList(<<JNum(1)>>)),
      Dumps(JObj([sessionInfo |-> JObj([session |-> JStr("s1"),
                                       parameters |-> JObj([a |-> JNum(1)])])])),
      Dumps(JObj([messages |-> JList(<<JNum(5)>>)])) }

SomeResults ==
    { JObj(EmptyMap), JObj([end_interaction |-> JBool(TRUE)]) }

BuildWebhookResponse ==
    \E fr \in SomeFulfillments : CreateWebhookResponse(fr) /\ UNCHANGED req

ParseRequest ==
    \E text \in SomeRequestTexts : ParseWebhookRequest(text) /\ UNCHANGED req

CheckEnd ==
    \E response \in SomeResults : CheckEndInteraction(response) /\ UNCHANGED req

Init == ServerInit /\ req = NoReq /\ ret = NoRet

Next ==
    \/ InitializeDialogflow
    \/ DetectIntent
    \/ DetectIntentFromAudio
    \/ DetectIntentFromBase64
    \/ MatchIntent
    \/ BuildWebhookResponse
    \/ ParseRequest
    \/ CheckEnd

Spec == Init /\ [][Next]_vars

----------------------------------------------------------------------------
(* Claims about the tools, checked under Spec.                             *)

Detecting == ret.tool \in DetectTools

\* C1: while no initialize call has succeeded, also after failed ones, every
\* invocation of the four detection and matching tools returns a result with
\* an error field, issues no remote call, returns before its await and does
\* not raise.
C1_UninitializedFailsFast ==
    (Detecting /\ ~ret.initialized) =>
      /\ HasError(ret.result)
      /\ ret.calls = <<>>
      /\ ~ret.awaited
      /\ ~ret.raised

\* C1's case: an initialize call has failed, none has succeeded, and the audio
\* tool was invoked and has answered.
C1_Witness ==
    /\ ret.tool = "detect_intent_from_audio"
    /\ ~ret.initialized
    /\ inits.failed /\ ~inits.succeeded
    /\ HasError(ret.result)

\* The invocation met one of the failures of the claim: a constructor that
\* raises, an uninitialised client, a rejected input, a failing remote call,
\* a messages value that cannot be iterated, a text that is not JSON or not
\* a JSON object.
Failed ==
    \/ ret.tool = "initialize_dialogflow" /\ ret.fault # "none"
    \/ Detecting /\ ret.fault # "none"
    \/ /\ ret.tool = "create_webhook_response"
       /\ "messages" \in DOMAIN ret.arg[2] /\ ~Iterable(ret.arg[2]["messages"])
    \/ /\ ret.tool = "parse_webhook_request"
       /\ ~Loads(ret.arg).ok \/ ~IsObj(Loads(ret.arg).val)

\* C2 as stated: for every tool a failure comes back as a structured
\* {error: message} result, and no invocation ends in an uncaught fault.
C2_AsStated ==
    ret.tool # "none" =>
      /\ ~ret.raised
      /\ Failed => (HasError(ret.result) /\ DOMAIN ret.result[2] = {"error"})

\* C2 as amended: no invocation of any tool ends in an uncaught fault; for the
\* three detection tools, match_intent, create_webhook_response and
\* parse_webhook_request a failure comes back as a structured {error: message}
\* result; a failing initialize is caught as well but comes back as a plain
\* error string, not a structured result; check_end_interaction has no failure
\* on a result object.
C2_FailuresCaught ==
    ret.tool # "none" =>
      /\ ~ret.raised
      /\ (Failed /\ ret.tool # "initialize_dialogflow") =>
           (HasError(ret.result) /\ DOMAIN ret.result[2] = {"error"})
      /\ (Failed /\ ret.tool = "initialize_dialogflow") =>
           /\ ~IsObj(ret.result)
           /\ ret.result[1] = "fstr"
           /\ ret.result[2][1] = "Error initializing Dialogflow CX client"
      /\ ret.tool = "check_end_interaction" => ret.result[1] = "bool"

\* C2's case: the remote call of the base64 tool failed and the tool answered.
C2_Witness ==
    /\ ret.tool = "detect_intent_from_base64"
    /\ ret.fault = "remote"
    /\ HasError(ret.result)

\* C3: in a successful detection or matching invocation the session_id of the
\* result is the session segment of the session path sent in the remote call;
\* it is the caller's id when that is not empty, and otherwise a generated token
\* that differs from every id supplied or generated in an earlier invocation.
C3_SessionId ==
    (Detecting /\ ret.fault = "none") =>
      /\ Len(ret.calls) = 1
      /\ Field(ret.result, "session_id") = JStr(SessionSegment(ret.calls[1].session))
      /\ ret.session_id # "" => Field(ret.result, "session_id") = JStr(ret.session_id)
      /\ ret.session_id = "" =>
           /\ Field(ret.result, "session_id")[2] \in Uuids
           /\ Field(ret.result, "session_id")[2] \notin ret.before

\* C3's case: after an invocation with a caller's id and one with a generated
\* id, a successful invocation without an id has answered.
C3_Witness ==
    /\ Detecting /\ ret.fault = "none"
    /\ ret.session_id = ""
    /\ "s1" \in ret.before
    /\ ret.before \cap Uuids # {}
    /\ Field(ret.result, "session_id")[2] \notin ret.before

\* The caller's input passes the checks a tool makes before its remote call.
WellFormed(tool, input) ==
    IF tool = "detect_intent_from_audio"
    THEN input.readable /\ input.audio_encoding \in AudioEncodings
    ELSE IF tool = "detect_intent_from_base64"
    THEN input.decodable /\ input.audio_encoding \in AudioEncodings
    ELSE TRUE

\* C10: an invocation of a detection or matching tool issues at most one remote
\* call: exactly one when the client is initialised and the input well formed,
\* none when the client is uninitialised or the input is rejected; when the
\* remote call fails the tool returns an error result and has issued one call.
C10_SingleAttempt ==
    Detecting =>
      /\ Len(ret.calls) <= 1
      /\ Len(ret.calls) = 1 <=> (ret.initialized /\ WellFormed(ret.tool, ret.input))
      /\ ret.fault = "remote" => (HasError(ret.result) /\ Len(ret.calls) = 1)

\* C10's case: with the client initialised, the audio tool was given an unknown
\* encoding name and has answered without a remote call.
C10_Witness ==
    /\ ret.tool = "detect_intent_from_audio"
    /\ ret.initialized
    /\ ret.input.readable /\ ret.input.audio_encoding \notin AudioEncodings
    /\ ret.calls = <<>>
    /\ HasError(ret.result)

----------------------------------------------------------------------------
(* The tools under interleaving.  The tools are coroutines of one event    *)
(* loop: a tool runs without interruption from its first line to           *)
(* `await loop.run_in_executor(...)`, other tools run while it is          *)
(* suspended there, and it resumes once the executor has made the call.    *)

\* A variant in which the executor calls through the client the global names
\* at the time of the call.
ExecutorClientGlobal(self, global) == IF global = <<>> THEN self ELSE global[1]

\* `lambda: self.sessions_client.detect_intent(request)`: the executor calls
\* through the client object the method was invoked on.
ExecutorClient(self, global) == self

\* An invocation suspended at its await: the tool and its arguments, the
\* session id, the client `DIALOGFLOW_CLIENT.detect_intent(...)` was evaluated
\* to, and the session path of the request built before the await.
Suspended(tool, sid_arg, input, session_id, self, uuid4b) ==
    [tool |-> tool, sid_arg |-> sid_arg, input |-> input, session_id |-> session_id,
     self |-> self, session |-> create_session_path(self, session_id, uuid4b)]

\* What an invocation hands back, with the handle its guard read.
Answered(tool, sid_arg, input, fault, result, awaited, calls, read) ==
    [tool |-> tool, session_id |-> sid_arg, input |-> input, fault |-> fault,
     result |-> result, raised |-> FALSE, awaited |-> awaited, calls |-> calls,
     read |-> read]

\* What a caller chooses for an invocation that may be suspended; the callers
\* of these invocations supply their session id.
ChoicesAtStart(tool) ==
    { [sid_arg |-> c.sid_arg, input |-> c.input, uuid4 |-> c.uuid4, uuid4b |-> c.uuid4b] :
        c \in { d \in Choices(tool) : d.sid_arg \in CallerIds } }

\* A tool from its first line to its await: the guard on the global, the
\* session id, the try block up to the remote call.  It returns at once when
\* the guard or the input fails, and is suspended otherwise.
StartInvocation ==
    \E tool \in DetectTools :
      \E c \in ChoicesAtStart(tool) :
        LET session_id == ToolSessionId(c.sid_arg, c.uuid4)
            pre == PreCall(tool, c.input)
        IN /\ issued' = issued \cup IdsOf(c.sid_arg, c.uuid4)
           /\ IF DIALOGFLOW_CLIENT = <<>>
              THEN /\ ret' = Answered(tool, c.sid_arg, c.input, "uninitialized",
                                      NotInitialized, FALSE, <<>>, DIALOGFLOW_CLIENT)
                   /\ UNCHANGED waiting
              ELSE IF ~pre.ok
              THEN /\ ret' = Answered(tool, c.sid_arg, c.input, "input",
                                      ErrorResult(ErrorPrefix(tool), pre.exc),
                                      FALSE, <<>>, DIALOGFLOW_CLIENT)
                   /\ UNCHANGED waiting
              ELSE /\ BagCardinality(waiting) < MaxWaiting
                   /\ waiting' = waiting (+)
                                    SetToBag({Suspended(tool, c.sid_arg, c.input, session_id,
                                                        DIALOGFLOW_CLIENT[1], c.uuid4b)})
                   /\ UNCHANGED ret
           /\ UNCHANGED <<DIALOGFLOW_CLIENT, inits, req>>

\* The executor makes the remote call of a suspended invocation, the service
\* answers or fails, and the tool runs from its await to its return.
ResumeInvocation ==
    \E w \in BagToSet(waiting) :
      /\ \E outcome \in RemoteOutcomes(w.tool) :
           LET via == ExecutorClient(w.self, DIALOGFLOW_CLIENT)
           IN /\ ret' = Answered(w.tool, w.sid_arg, w.input,
                                 IF outcome.ok THEN "none" ELSE "remote",
                                 ToolResult(w.tool, w.session_id, outcome), TRUE,
                                 <<[method |-> RemoteMethod(w.tool), agent |-> via.agent_id,
                                    session |-> w.session]>>,
                                 <<w.self>>)
              /\ waiting' = waiting (-) SetToBag({w})
              /\ UNCHANGED <<DIALOGFLOW_CLIENT, issued, inits, req>>

ConcurrentNext ==
    \/ InitializeDialogflow
    \/ StartInvocation
    \/ ResumeInvocation

ConcurrentSpec == Init /\ [][ConcurrentNext]_vars

----------------------------------------------------------------------------
(* Claims about interleavings, checked under ConcurrentSpec.               *)

\* The client a successful initialize call with these arguments constructs.
ClientOf(cfg) ==
    [project_id |-> cfg.project_id, location |-> cfg.location, agent_id |-> cfg.agent_id,
     agent_path |-> <<"projects", cfg.project_id, "locations", cfg.location,
                      "agents", cfg.agent_id>>]

InitializeSucceeded(r) == r.tool = "initialize_dialogflow" /\ r.fault = "none"

\* A step writes the handle only when it is a successful initialize; a step
\* that suspends an invocation binds it to the handle of that moment, and the
\* invocation answers with that handle as the one it read.
HandleStep ==
    /\ DIALOGFLOW_CLIENT' # DIALOGFLOW_CLIENT =>
         (InitializeSucceeded(ret') /\ DIALOGFLOW_CLIENT' = <<ClientOf(ret'.arg)>>)
    /\ \A w \in BagToSet(waiting) \cup BagToSet(waiting') :
         /\ CopiesIn(w, waiting') > CopiesIn(w, waiting) =>
              (DIALOGFLOW_CLIENT # <<>> /\ w.self = DIALOGFLOW_CLIENT[1])
         /\ CopiesIn(w, waiting') < CopiesIn(w, waiting) =>
              /\ ret'.tool = w.tool /\ ret'.awaited
              /\ ret'.read = <<w.self>>

\* After a successful initialize has answered, the handle is the client of
\* that call, whatever the calls before it wrote; an invocation that was
\* suspended has issued its one remote call through the client its guard read,
\* for a session of that client's agent.
HandleState ==
    /\ InitializeSucceeded(ret) => DIALOGFLOW_CLIENT = <<ClientOf(ret.arg)>>
    /\ (ret.tool = "initialize_dialogflow" /\ ret.fault # "none" /\ ~inits.succeeded) =>
         DIALOGFLOW_CLIENT = <<>>
    /\ (Detecting /\ ret.awaited) =>
         /\ ret.read # <<>>
         /\ Len(ret.calls) = 1
         /\ ret.calls[1].agent = ret.read[1].agent_id
         /\ ret.calls[1].session[1] = ret.read[1].agent_path
    /\ (Detecting /\ ~ret.awaited) => ret.calls = <<>>

\* C11: under any interleaving of initialize calls and detection or matching
\* invocations, the handle is written only by a successful initialize (a failed
\* initialize and every other tool leave it unchanged), the handle after
\* several initialize calls is the one written last, and an invocation issues
\* its remote call against the agent of the handle it read when it started: an
\* initialize that completes while the invocation is suspended at its await
\* changes only invocations that start later.
C11_HandleRaces == []HandleState /\ [][HandleStep]_vars

\* C11's case: an invocation read the handle of one agent, an initialize for
\* another agent completed while it was suspended, and it has answered with
\* its remote call made against the agent it read.
C11_Witness ==
    /\ Detecting /\ ret.awaited
    /\ ret.read # <<>> /\ DIALOGFLOW_CLIENT # <<>>
    /\ ret.read[1].agent_id = "agent-1"
    /\ DIALOGFLOW_CLIENT[1].agent_id = "agent-2"
    /\ ret.calls[1].agent = "agent-1"

====
